---- MODULE Spec2Model ----
(***************************************************************************)
(* Triangular morphisms of modules with basis (module_with_basis_morphism): *)
(* linear extension, triangular elimination (preimage, coreduced), the      *)
(* cokernel basis and inversion, as a state machine over one map object.    *)
(*                                                                          *)
(* Elements of a module with basis are functions from the basis indices to  *)
(* coefficients of the base ring (0 off the support).  The base ring is ZZ  *)
(* (not a field) or GF(5) (a field).  The caller-supplied on_basis is drawn *)
(* from the families the doctests of the module use.                        *)
(***************************************************************************)
EXTENDS Integers, Sequences, FiniteSets, TLC

\* ------------------------------------------------------------------ bounds
\* basis indices are 1..MaxIdx; the index sets of domain and codomain are
\* 1..NI and 1..NJ with NI, NJ <= MaxIdx
MaxIdx == 3
\* coefficients of the elements passed by the caller are 0..MaxCoef
MaxCoef == 1
\* iterations of one elimination loop that are followed
MaxIter == 6

Idx == 1..MaxIdx

\* Python's None for an index, and a key that is absent from the memoization table
None == 0 - 1
Unset == 0 - 2

\* ------------------------------------------------------------------ base ring
Rings == {"ZZ", "GF5"}

IsField(R) == R = "GF5"

Abs(a) == IF a < 0 THEN 0 - a ELSE a

\* the canonical representative of the integer a in the ring R
Norm(R, a) == IF R = "GF5" THEN a % 5 ELSE a

RAdd(R, a, b) == Norm(R, a + b)
RSub(R, a, b) == Norm(R, a - b)
RMul(R, a, b) == Norm(R, a * b)

\* the inverse of the nonzero b in GF(5)
FieldInv(b) == CHOOSE k \in 1..4 : (b * k) % 5 = 1

\* c / d is an element of R (d nonzero): always in a field, in ZZ when d divides c
Divides(R, c, d) == IsField(R) \/ Abs(c) % Abs(d) = 0

\* the quotient c / d in R, for Divides(R, c, d)
Quot(R, c, d) ==
    IF IsField(R) THEN (c * FieldInv(d)) % 5
    ELSE IF (c < 0) = (d < 0) THEN Abs(c) \div Abs(d)
         ELSE 0 - (Abs(c) \div Abs(d))

\* ------------------------------------------------------------------ elements
Zero == [j \in Idx |-> 0]

Support(e) == {j \in Idx : e[j] # 0}

IsZero(e) == Support(e) = {}

\* the term c * B[i]
Term(i, c) == [j \in Idx |-> IF j = i THEN c ELSE 0]

EAdd(R, e, f) == [j \in Idx |-> RAdd(R, e[j], f[j])]

ESub(R, e, f) == [j \in Idx |-> RSub(R, e[j], f[j])]

\* s._lmul_(c)
LMul(R, c, s) == [j \in Idx |-> RMul(R, c, s[j])]

\* ------------------------------------------------------------------ dominant term
\* the rank of an index under the comparison function: the natural order, or
\* cmp(perm[a], perm[b]) with perm = [0, 2, 1, 3, ...]
Key(cmp, j) ==
    IF cmp = "perm" THEN (IF j = 1 THEN 2 ELSE IF j = 2 THEN 1 ELSE j) ELSE j

LeadingSupport(cmp, e) ==
    CHOOSE j \in Support(e) : \A k \in Support(e) : Key(cmp, k) <= Key(cmp, j)

TrailingSupport(cmp, e) ==
    CHOOSE j \in Support(e) : \A k \in Support(e) : Key(cmp, j) <= Key(cmp, k)

\* self._dominant_item(e)[0], for a nonzero e
DominantIndex(m, e) ==
    IF m.triangular = "upper" THEN LeadingSupport(m.cmp, e)
    ELSE TrailingSupport(m.cmp, e)

\* self._dominant_item(e), a pair <<index, coefficient>>, for a nonzero e
DominantItem(m, e) == <<DominantIndex(m, e), e[DominantIndex(m, e)]>>

\* ------------------------------------------------------------------ the map
\* The on_basis functions of the doctests, by the shape of their sum:
\*   dir "from": sum(coef * y[j] for j in range(i + shift, n + 1))   (ult, lt, shifted)
\*   dir "upto": sum(coef * y[j] for j in range(1, i + 1))           (uut, ut)
\*   dir "div":  sum(y[d] for d in divisors(i))                       (divisor sums)
\* with coef one of 1, j and 2, and n the number of basis indices of the codomain.
Families ==
    [dir : {"from"}, shift : {0, 1}, coef : {"one", "idx", "two"}]
    \cup [dir : {"upto"}, shift : {0}, coef : {"one", "idx"}]
    \cup [dir : {"div"}, shift : {0}, coef : {"one"}]

InRange(fam, n, i, j) ==
    /\ j <= n
    /\ CASE fam.dir = "from" -> j >= i + fam.shift
         [] fam.dir = "upto" -> j <= i
         [] OTHER -> i % j = 0

Coef(fam, j) ==
    CASE fam.coef = "one" -> 1
      [] fam.coef = "idx" -> j
      [] OTHER -> 2

\* self._on_basis(i): the image of the basis element of index i, an element of
\* the codomain (the functions above are defined at every integer index)
OnBasis(m, i) ==
    [j \in Idx |-> IF InRange(m.fam, m.NJ, i, j) THEN Norm(m.ring, Coef(m.fam, j)) ELSE 0]

\* the basis keys of the domain and of the codomain, in enumeration order
DomainKeys(m) == 1..m.NI

CodomainKeys(m) == 1..m.NJ

\* inverse_on_support functions given by the caller:
\*   "shift1":  lambda i: i-1 if i-1 is a key of the domain else None
\*   "shift0":  lambda i: i   if i   is a key of the domain else None
\*   "reverse": lambda i: n+1 - i                       (the doctests' 4 - i)
ExplicitFunctions == {"shift0", "shift1", "reverse"}

InverseOnSupportGiven(m, j) ==
    CASE m.ios = "shift1" -> IF (j - 1) \in DomainKeys(m) THEN j - 1 ELSE None
      [] m.ios = "shift0" -> IF j \in DomainKeys(m) THEN j ELSE None
      [] OTHER -> m.NJ + 1 - j

\* _inverse_on_support_trivial
InverseOnSupportTrivial(j) == j

\* _inverse_on_support_precomputed, a cached method: the value set for the key
\* by set_cache or by an earlier call, else None
InverseOnSupportPrecomputed(cache, j) == IF cache[j] = Unset THEN None ELSE cache[j]

\* self._inverse_on_support(j)
InverseOnSupport(m, cache, j) ==
    CASE m.mode = "trivial" -> InverseOnSupportTrivial(j)
      [] m.mode = "compute" -> InverseOnSupportPrecomputed(cache, j)
      [] OTHER -> InverseOnSupportGiven(m, j)

\* the memoization table after self._inverse_on_support(j): the cached method
\* stores the value it returns for a key it has not seen
\* the cached method forgetting the value it holds for the key it is called on
Memo_Overwrites(m, cache, j) ==
    IF m.mode = "compute" THEN [cache EXCEPT ![j] = None] ELSE cache

Memo(m, cache, j) ==
    IF m.mode = "compute" /\ cache[j] = Unset THEN [cache EXCEPT ![j] = None] ELSE cache

EmptyCache == [j \in Idx |-> Unset]

\* the arguments of the constructor
InputArgs ==
    [NI : Idx, NJ : Idx, codFinite : BOOLEAN, ring : Rings, fam : Families,
     triangular : {"upper", "lower"}, unitriangular : BOOLEAN, cmp : {"natural", "perm"},
     inverse_on_support : {"None", "compute"} \cup ExplicitFunctions,
     invertible : {"None", "True", "False"}]

\* __init__ taking the invertible flag from the index sets whatever the option
NewMap_FlagFromKeys(a) ==
    [NI |-> a.NI, NJ |-> a.NJ, codFinite |-> a.codFinite, ring |-> a.ring, fam |-> a.fam,
     triangular |-> a.triangular, unitriangular |-> a.unitriangular, cmp |-> a.cmp,
     mode |-> IF a.inverse_on_support = "compute" THEN "compute"
              ELSE IF a.inverse_on_support = "None" THEN "trivial" ELSE "explicit",
     ios |-> a.inverse_on_support,
     zero |-> Zero, same |-> TRUE,
     invertible_arg |-> a.invertible,
     invertible |-> a.codFinite /\ a.NI = a.NJ,
     inverse |-> None]

\* TriangularModuleMorphismByLinearity.__init__: the attributes of the new
\* object (and, in invertible_arg, the invertible option it was given); zero is
\* left to its default, the zero of the codomain, a module with basis over the
\* base ring of the domain
NewMap(a) ==
    [NI |-> a.NI, NJ |-> a.NJ, codFinite |-> a.codFinite, ring |-> a.ring, fam |-> a.fam,
     triangular |-> a.triangular, unitriangular |-> a.unitriangular, cmp |-> a.cmp,
     mode |-> IF a.inverse_on_support = "compute" THEN "compute"
              ELSE IF a.inverse_on_support = "None" THEN "trivial" ELSE "explicit",
     ios |-> a.inverse_on_support,
     zero |-> Zero, same |-> TRUE,
     invertible_arg |-> a.invertible,
     invertible |-> IF a.invertible # "None" THEN a.invertible = "True"
                    ELSE a.codFinite /\ a.NI = a.NJ,
     inverse |-> None]

\* ------------------------------------------------------------------ linear extension
RECURSIVE SumOnBasis(_, _, _, _)
\* the coefficient at j of the sum of x[i] * on_basis(i) over the indices i <= n
SumOnBasis(m, x, j, n) ==
    IF n = 0 THEN 0
    ELSE RAdd(m.ring, SumOnBasis(m, x, j, n - 1), RMul(m.ring, x[n], OnBasis(m, n)[j]))

\* the linear extension forgetting the coefficients of x
Apply_IgnoreCoefficients(m, x) ==
    [j \in Idx |-> SumOnBasis(m, [i \in Idx |-> IF x[i] # 0 THEN 1 ELSE 0], j, MaxIdx)]

\* ModuleMorphismByLinearity.__call__ for a map into a module with basis over
\* the same base ring: the linear combination of the on_basis(i)
Apply(m, x) == [j \in Idx |-> SumOnBasis(m, x, j, MaxIdx)]

\* the arguments of the constructor of a morphism by linearity that is not
\* triangular: zero is None or an element, the codomain is a module with basis
\* over the base ring of the domain or is not
LinearArgs ==
    [NI : Idx, NJ : Idx, ring : Rings, fam : Families,
     zero : {<<>>} \cup [Idx -> 0..MaxCoef], codWithBasis : BOOLEAN]

\* ModuleMorphismByLinearity.__init__
NewLinearMap(a) ==
    LET zero == IF a.zero = <<>> THEN Zero ELSE a.zero
    IN  [NI |-> a.NI, NJ |-> a.NJ, ring |-> a.ring, fam |-> a.fam,
         zero |-> zero, same |-> (a.codWithBasis /\ zero = Zero)]

RECURSIVE AffineSum(_, _, _)
\* sum((coeff * on_basis(index) for (index, coeff) in x), zero), over the terms
\* of x of index 1..n
AffineSum(m, x, n) ==
    IF n = 0 THEN m.zero
    ELSE IF x[n] = 0 THEN AffineSum(m, x, n - 1)
    ELSE EAdd(m.ring, AffineSum(m, x, n - 1), LMul(m.ring, x[n], OnBasis(m, n)))

\* __call__ without the designated zero in the affine case
Call_DropsZero(m, x) == Apply(m, x)

\* ModuleMorphismByLinearity.__call__
Call(m, x) == IF m.same THEN Apply(m, x) ELSE AffineSum(m, x, MaxIdx)

\* ------------------------------------------------------------------ triangularity
\* what _test_triangular asserts of the key x of the domain
TriangularOn(m, cache, x) ==
    /\ ~IsZero(OnBasis(m, x))
    /\ m.unitriangular => DominantItem(m, OnBasis(m, x))[2] = 1
    /\ InverseOnSupport(m, cache, DominantItem(m, OnBasis(m, x))[1]) = x

\* _test_triangular passes
IsTriangular(m, cache) == \A x \in DomainKeys(m) : TriangularOn(m, cache, x)

RECURSIVE TestTriangular_IndexFirst(_, _, _)
\* _test_triangular asserting the index before the unit coefficient
TestTriangular_IndexFirst(m, table, x) ==
    IF x > m.NI THEN [raised |-> FALSE, err |-> "none", key |-> m.NI]
    ELSE IF IsZero(OnBasis(m, x)) THEN [raised |-> TRUE, err |-> "EmptySupport", key |-> x]
    ELSE LET bs == DominantItem(m, OnBasis(m, x))[1]
             co == DominantItem(m, OnBasis(m, x))[2]
         IN  IF InverseOnSupport(m, table, bs) # x
             THEN [raised |-> TRUE, err |-> "AssertNotTriangular", key |-> x]
             ELSE IF m.unitriangular /\ co # Norm(m.ring, 1)
             THEN [raised |-> TRUE, err |-> "AssertNotUnitriangular", key |-> x]
             ELSE TestTriangular_IndexFirst(m, table, x + 1)

RECURSIVE TestTriangular(_, _, _)
\* _test_triangular from the key x of the domain on: it passes (at the end of
\* the keys), or raises at the key it names
TestTriangular(m, table, x) ==
    IF x > m.NI THEN [raised |-> FALSE, err |-> "none", key |-> m.NI]
    ELSE IF IsZero(OnBasis(m, x)) THEN [raised |-> TRUE, err |-> "EmptySupport", key |-> x]
    ELSE LET bs == DominantItem(m, OnBasis(m, x))[1]
             co == DominantItem(m, OnBasis(m, x))[2]
         IN  IF m.unitriangular /\ co # Norm(m.ring, 1)
             THEN [raised |-> TRUE, err |-> "AssertNotUnitriangular", key |-> x]
             ELSE IF InverseOnSupport(m, table, bs) # x
             THEN [raised |-> TRUE, err |-> "AssertNotTriangular", key |-> x]
             ELSE TestTriangular(m, table, x + 1)

\* the memoization table after _test_triangular: the lookups at the dominant
\* indices of the images of the keys it went through
TestMemo(m, table) ==
    LET r == TestTriangular(m, table, 1)
        looked == {j \in Idx : \E x \in 1..r.key :
                      /\ ~IsZero(OnBasis(m, x))
                      /\ j = DominantItem(m, OnBasis(m, x))[1]
                      /\ ~(x = r.key /\ r.err = "AssertNotUnitriangular")}
    IN  [j \in Idx |-> IF m.mode = "compute" /\ j \in looked /\ table[j] = Unset
                       THEN None ELSE table[j]]

\* the assumption the class states on inverse_on_support: r(j) is a key i of
\* the domain such that the dominant index of on_basis(i) is j if there is
\* such an i, and None if there is none
InverseOnSupportAsDocumented(m, cache) ==
    \A j \in CodomainKeys(m) :
        LET i == InverseOnSupport(m, cache, j)
        IN  /\ i # None => /\ i \in DomainKeys(m)
                           /\ ~IsZero(OnBasis(m, i))
                           /\ DominantItem(m, OnBasis(m, i))[1] = j
            /\ i = None => \A x \in DomainKeys(m) :
                              \/ IsZero(OnBasis(m, x))
                              \/ DominantItem(m, OnBasis(m, x))[1] # j

\* ------------------------------------------------------------------ elimination
\* preimage rescaling c by the dominant coefficient of s after the subtraction
PreimageIteration_RescalesLate(m, cache, f, remainder, out) ==
    LET j  == DominantItem(m, remainder)[1]
        c  == DominantItem(m, remainder)[2]
        j_preimage == InverseOnSupport(m, cache, j)
        s  == OnBasis(m, j_preimage)
        raise(kind) == [raised |-> TRUE, err |-> kind, errElt |-> f,
                        remainder |-> remainder, out |-> out]
    IN  IF j_preimage = None THEN raise("NotInImage")
        ELSE IF IsZero(s) THEN raise("EmptySupport")
        ELSE IF j # DominantItem(m, s)[1] THEN raise("NotTriangular")
        ELSE IF ~m.unitriangular /\ ~Divides(m.ring, c, s[j]) THEN raise("Inexact")
        ELSE LET c2 == IF m.unitriangular THEN c ELSE Quot(m.ring, c, s[j])
             IN  [raised |-> FALSE, err |-> "none", errElt |-> Zero,
                  remainder |-> ESub(m.ring, remainder, LMul(m.ring, c, s)),
                  out |-> EAdd(m.ring, out, Term(j_preimage, c2))]

\* preimage adding the term at the codomain index j instead of its preimage
PreimageIteration_TermAtJ(m, cache, f, remainder, out) ==
    LET j  == DominantItem(m, remainder)[1]
        c  == DominantItem(m, remainder)[2]
        j_preimage == InverseOnSupport(m, cache, j)
        s  == OnBasis(m, j_preimage)
        raise(kind) == [raised |-> TRUE, err |-> kind, errElt |-> f,
                        remainder |-> remainder, out |-> out]
    IN  IF j_preimage = None THEN raise("NotInImage")
        ELSE IF IsZero(s) THEN raise("EmptySupport")
        ELSE IF j # DominantItem(m, s)[1] THEN raise("NotTriangular")
        ELSE IF ~m.unitriangular /\ ~Divides(m.ring, c, s[j]) THEN raise("Inexact")
        ELSE LET c2 == IF m.unitriangular THEN c ELSE Quot(m.ring, c, s[j])
             IN  [raised |-> FALSE, err |-> "none", errElt |-> Zero,
                  remainder |-> ESub(m.ring, remainder, LMul(m.ring, c2, s)),
                  out |-> EAdd(m.ring, out, Term(j, c2))]

\* preimage naming the remainder, not the target, in its not-in-image message
PreimageIteration_NamesRemainder(m, cache, f, remainder, out) ==
    LET j  == DominantItem(m, remainder)[1]
        c  == DominantItem(m, remainder)[2]
        j_preimage == InverseOnSupport(m, cache, j)
        s  == OnBasis(m, j_preimage)
        raise(kind) == [raised |-> TRUE, err |-> kind, errElt |-> remainder,
                        remainder |-> remainder, out |-> out]
    IN  IF j_preimage = None THEN raise("NotInImage")
        ELSE IF IsZero(s) THEN raise("EmptySupport")
        ELSE IF j # DominantItem(m, s)[1] THEN raise("NotTriangular")
        ELSE IF ~m.unitriangular /\ ~Divides(m.ring, c, s[j]) THEN raise("Inexact")
        ELSE LET c2 == IF m.unitriangular THEN c ELSE Quot(m.ring, c, s[j])
             IN  [raised |-> FALSE, err |-> "none", errElt |-> Zero,
                  remainder |-> ESub(m.ring, remainder, LMul(m.ring, c2, s)),
                  out |-> EAdd(m.ring, out, Term(j_preimage, c2))]

\* preimage rounding the quotient c / s[j] where the division is not exact
\* the iteration adding the multiple of the image to the remainder
PreimageIteration_AddsImage(m, cache, f, remainder, out) ==
    LET j  == DominantItem(m, remainder)[1]
        c  == DominantItem(m, remainder)[2]
        j_preimage == InverseOnSupport(m, cache, j)
        s  == OnBasis(m, j_preimage)
        raise(kind) == [raised |-> TRUE, err |-> kind, errElt |-> f,
                        remainder |-> remainder, out |-> out]
    IN  IF j_preimage = None THEN raise("NotInImage")
        ELSE IF IsZero(s) THEN raise("EmptySupport")
        ELSE IF j # DominantItem(m, s)[1] THEN raise("NotTriangular")
        ELSE IF ~m.unitriangular /\ ~Divides(m.ring, c, s[j]) THEN raise("Inexact")
        ELSE LET c2 == IF m.unitriangular THEN c ELSE Quot(m.ring, c, s[j])
             IN  [raised |-> FALSE, err |-> "none", errElt |-> Zero,
                  remainder |-> EAdd(m.ring, remainder, LMul(m.ring, c2, s)),
                  out |-> EAdd(m.ring, out, Term(j_preimage, c2))]

\* the iteration that also compares the dominant coefficient of the image
PreimageIteration_ComparesCoefficient(m, cache, f, remainder, out) ==
    LET j  == DominantItem(m, remainder)[1]
        c  == DominantItem(m, remainder)[2]
        j_preimage == InverseOnSupport(m, cache, j)
        s  == OnBasis(m, j_preimage)
        raise(kind) == [raised |-> TRUE, err |-> kind, errElt |-> f,
                        remainder |-> remainder, out |-> out]
    IN  IF j_preimage = None THEN raise("NotInImage")
        ELSE IF IsZero(s) THEN raise("EmptySupport")
        ELSE IF j # DominantItem(m, s)[1] THEN raise("NotTriangular")
        ELSE IF m.unitriangular /\ s[j] # 1 THEN raise("NotTriangular")
        ELSE IF ~m.unitriangular /\ ~Divides(m.ring, c, s[j]) THEN raise("Inexact")
        ELSE LET c2 == IF m.unitriangular THEN c ELSE Quot(m.ring, c, s[j])
             IN  [raised |-> FALSE, err |-> "none", errElt |-> Zero,
                  remainder |-> ESub(m.ring, remainder, LMul(m.ring, c2, s)),
                  out |-> EAdd(m.ring, out, Term(j_preimage, c2))]

PreimageIteration_RoundsQuotient(m, cache, f, remainder, out) ==
    LET j  == DominantItem(m, remainder)[1]
        c  == DominantItem(m, remainder)[2]
        j_preimage == InverseOnSupport(m, cache, j)
        s  == OnBasis(m, j_preimage)
        raise(kind) == [raised |-> TRUE, err |-> kind, errElt |-> f,
                        remainder |-> remainder, out |-> out]
    IN  IF j_preimage = None THEN raise("NotInImage")
        ELSE IF IsZero(s) THEN raise("EmptySupport")
        ELSE IF j # DominantItem(m, s)[1] THEN raise("NotTriangular")
        ELSE LET c2 == IF m.unitriangular THEN c ELSE Quot(m.ring, c, s[j])
             IN  [raised |-> FALSE, err |-> "none", errElt |-> Zero,
                  remainder |-> ESub(m.ring, remainder, LMul(m.ring, c2, s)),
                  out |-> EAdd(m.ring, out, Term(j_preimage, c2))]

\* One iteration of the loop of preimage, entered with a nonzero remainder:
\* the locals after it, or the exception it raises.
PreimageIteration(m, cache, f, remainder, out) ==
    LET j  == DominantItem(m, remainder)[1]
        c  == DominantItem(m, remainder)[2]
        j_preimage == InverseOnSupport(m, cache, j)
        s  == OnBasis(m, j_preimage)
        raise(kind) == [raised |-> TRUE, err |-> kind, errElt |-> f,
                        remainder |-> remainder, out |-> out]
    IN  IF j_preimage = None THEN raise("NotInImage")
        ELSE IF IsZero(s) THEN raise("EmptySupport")
        ELSE IF j # DominantItem(m, s)[1] THEN raise("NotTriangular")
        ELSE IF ~m.unitriangular /\ ~Divides(m.ring, c, s[j]) THEN raise("Inexact")
        ELSE LET c2 == IF m.unitriangular THEN c ELSE Quot(m.ring, c, s[j])
             IN  [raised |-> FALSE, err |-> "none", errElt |-> Zero,
                  remainder |-> ESub(m.ring, remainder, LMul(m.ring, c2, s)),
                  out |-> EAdd(m.ring, out, Term(j_preimage, c2))]

\* The guard of coreduced and of cokernel_basis_indices on the base ring
RingGuardFails(m) == ~IsField(m.ring) /\ ~m.unitriangular

\* coreduced without the division of c by the dominant coefficient of s
CoreducedIteration_NoDivide(m, cache, y, remainder, result) ==
    LET j  == DominantItem(m, remainder)[1]
        c  == DominantItem(m, remainder)[2]
        j_preimage == InverseOnSupport(m, cache, j)
        s  == OnBasis(m, j_preimage)
        raise(kind) == [raised |-> TRUE, err |-> kind, errElt |-> Zero,
                        remainder |-> remainder, out |-> result]
    IN  IF j_preimage = None
        THEN [raised |-> FALSE, err |-> "none", errElt |-> Zero,
              remainder |-> ESub(m.ring, remainder, Term(j, c)),
              out |-> EAdd(m.ring, result, Term(j, c))]
        ELSE IF IsZero(s) THEN raise("EmptySupport")
        ELSE IF j # DominantItem(m, s)[1] THEN raise("Assertion")
        ELSE [raised |-> FALSE, err |-> "none", errElt |-> Zero,
              remainder |-> ESub(m.ring, remainder, LMul(m.ring, c, s)),
              out |-> result]

\* coreduced adding the dominant term it retains twice to the result
CoreducedIteration_RetainsTwice(m, cache, y, remainder, result) ==
    LET j  == DominantItem(m, remainder)[1]
        c  == DominantItem(m, remainder)[2]
        j_preimage == InverseOnSupport(m, cache, j)
        s  == OnBasis(m, j_preimage)
        raise(kind) == [raised |-> TRUE, err |-> kind, errElt |-> Zero,
                        remainder |-> remainder, out |-> result]
    IN  IF j_preimage = None
        THEN [raised |-> FALSE, err |-> "none", errElt |-> Zero,
              remainder |-> ESub(m.ring, remainder, Term(j, c)),
              out |-> EAdd(m.ring, EAdd(m.ring, result, Term(j, c)), Term(j, c))]
        ELSE IF IsZero(s) THEN raise("EmptySupport")
        ELSE IF j # DominantItem(m, s)[1] THEN raise("Assertion")
        ELSE LET c2 == IF m.unitriangular THEN c ELSE Quot(m.ring, c, s[j])
             IN  [raised |-> FALSE, err |-> "none", errElt |-> Zero,
                  remainder |-> ESub(m.ring, remainder, LMul(m.ring, c2, s)),
                  out |-> result]

\* coreduced leaving in the remainder the dominant term it retains
CoreducedIteration_KeepsDominant(m, cache, y, remainder, result) ==
    LET j  == DominantItem(m, remainder)[1]
        c  == DominantItem(m, remainder)[2]
        j_preimage == InverseOnSupport(m, cache, j)
        s  == OnBasis(m, j_preimage)
        raise(kind) == [raised |-> TRUE, err |-> kind, errElt |-> Zero,
                        remainder |-> remainder, out |-> result]
    IN  IF j_preimage = None
        THEN [raised |-> FALSE, err |-> "none", errElt |-> Zero,
              remainder |-> remainder,
              out |-> EAdd(m.ring, result, Term(j, c))]
        ELSE IF IsZero(s) THEN raise("EmptySupport")
        ELSE IF j # DominantItem(m, s)[1] THEN raise("Assertion")
        ELSE LET c2 == IF m.unitriangular THEN c ELSE Quot(m.ring, c, s[j])
             IN  [raised |-> FALSE, err |-> "none", errElt |-> Zero,
                  remainder |-> ESub(m.ring, remainder, LMul(m.ring, c2, s)),
                  out |-> result]

\* coreduced giving up, as preimage does, where inverse_on_support is None
CoreducedIteration_RaisesNotInImage(m, cache, y, remainder, result) ==
    LET j  == DominantItem(m, remainder)[1]
        c  == DominantItem(m, remainder)[2]
        j_preimage == InverseOnSupport(m, cache, j)
        s  == OnBasis(m, j_preimage)
        raise(kind) == [raised |-> TRUE, err |-> kind, errElt |-> Zero,
                        remainder |-> remainder, out |-> result]
    IN  IF j_preimage = None THEN raise("NotInImage")
        ELSE IF IsZero(s) THEN raise("EmptySupport")
        ELSE IF j # DominantItem(m, s)[1] THEN raise("Assertion")
        ELSE LET c2 == IF m.unitriangular THEN c ELSE Quot(m.ring, c, s[j])
             IN  [raised |-> FALSE, err |-> "none", errElt |-> Zero,
                  remainder |-> ESub(m.ring, remainder, LMul(m.ring, c2, s)),
                  out |-> result]

\* One iteration of the loop of coreduced, entered with a nonzero remainder
CoreducedIteration(m, cache, y, remainder, result) ==
    LET j  == DominantItem(m, remainder)[1]
        c  == DominantItem(m, remainder)[2]
        j_preimage == InverseOnSupport(m, cache, j)
        s  == OnBasis(m, j_preimage)
        raise(kind) == [raised |-> TRUE, err |-> kind, errElt |-> Zero,
                        remainder |-> remainder, out |-> result]
    IN  IF j_preimage = None
        THEN [raised |-> FALSE, err |-> "none", errElt |-> Zero,
              remainder |-> ESub(m.ring, remainder, Term(j, c)),
              out |-> EAdd(m.ring, result, Term(j, c))]
        ELSE IF IsZero(s) THEN raise("EmptySupport")
        ELSE IF j # DominantItem(m, s)[1] THEN raise("Assertion")
        ELSE LET c2 == IF m.unitriangular THEN c ELSE Quot(m.ring, c, s[j])
             IN  [raised |-> FALSE, err |-> "none", errElt |-> Zero,
                  remainder |-> ESub(m.ring, remainder, LMul(m.ring, c2, s)),
                  out |-> result]

RECURSIVE SelectKeys(_, _, _)
\* [i for i in 1..n if inverse_on_support(i) is None], in enumeration order
SelectKeys(m, cache, n) ==
    IF n = 0 THEN << >>
    ELSE IF InverseOnSupport(m, cache, n) = None
         THEN Append(SelectKeys(m, cache, n - 1), n)
         ELSE SelectKeys(m, cache, n - 1)

\* cokernel_basis_indices testing the dimension of the codomain before the ring
CokernelBasisIndices_DimensionFirst(m, cache) ==
    IF ~m.codFinite THEN [raised |-> TRUE, err |-> "NotImplementedInfinite", list |-> << >>]
    ELSE IF RingGuardFails(m) THEN [raised |-> TRUE, err |-> "NotImplementedRing", list |-> << >>]
    ELSE [raised |-> FALSE, err |-> "none", list |-> SelectKeys(m, cache, m.NJ)]

\* cokernel_basis_indices: the exception it raises, or the list it returns
CokernelBasisIndices(m, cache) ==
    IF RingGuardFails(m) THEN [raised |-> TRUE, err |-> "NotImplementedRing", list |-> << >>]
    ELSE IF ~m.codFinite THEN [raised |-> TRUE, err |-> "NotImplementedInfinite", list |-> << >>]
    ELSE [raised |-> FALSE, err |-> "none", list |-> SelectKeys(m, cache, m.NJ)]

\* the memoization table after cokernel_basis_indices
CokernelMemo(m, cache) ==
    IF m.mode = "compute" /\ ~CokernelBasisIndices(m, cache).raised
    THEN [j \in Idx |-> IF j \in CodomainKeys(m) /\ cache[j] = Unset THEN None ELSE cache[j]]
    ELSE cache

\* ------------------------------------------------------------------ inversion
NoMap ==
    [id |-> "none", cls |-> "none", NI |-> 0, NJ |-> 0, on_basis |-> "none", triangular |-> "none",
     unitriangular |-> FALSE, cmp |-> "none", mode |-> "none", invertible |-> FALSE,
     inverse |-> "none"]

\* section(), for a map built by the caller (self._inverse is None)
Section(m) ==
    IF m.invertible
    THEN [id |-> "new", cls |-> "TriangularModuleMorphism", NI |-> m.NJ, NJ |-> m.NI,
          on_basis |-> "_invert_on_basis", triangular |-> m.triangular,
          unitriangular |-> m.unitriangular, cmp |-> m.cmp,
          mode |-> IF m.mode = "trivial" THEN "trivial" ELSE "retract_dom",
          invertible |-> m.invertible, inverse |-> "self"]
    ELSE [id |-> "new", cls |-> "SetMorphism", NI |-> m.NJ, NJ |-> m.NI,
          on_basis |-> "preimage", triangular |-> "none",
          unitriangular |-> FALSE, cmp |-> "none", mode |-> "none",
          invertible |-> FALSE, inverse |-> "none"]

\* __invert__ falling back on the section of a map that is not invertible
Invert_FallsBackOnSection(m) == [raised |-> FALSE, err |-> "none", map |-> Section(m)]

\* __invert__: the exception it raises, or the map it returns
Invert(m) ==
    IF ~m.invertible THEN [raised |-> TRUE, err |-> "NonInvertible", map |-> NoMap]
    ELSE [raised |-> FALSE, err |-> "none", map |-> Section(m)]

\* ------------------------------------------------------------------ the maps returned
\* the map m itself, as the object a call returns
MapObject(m) ==
    [id |-> "self", cls |-> "TriangularModuleMorphism", NI |-> m.NI, NJ |-> m.NJ,
     on_basis |-> "on_basis", triangular |-> m.triangular,
     unitriangular |-> m.unitriangular, cmp |-> m.cmp, mode |-> m.mode,
     invertible |-> m.invertible, inverse |-> "none"]

\* section() of the returned map building a new map where its _inverse is set
SectionOfReturned_Rebuilds(m, r) ==
    [id |-> "new", cls |-> r.cls, NI |-> r.NJ, NJ |-> r.NI,
     on_basis |-> "_invert_on_basis", triangular |-> r.triangular,
     unitriangular |-> r.unitriangular, cmp |-> r.cmp,
     mode |-> IF r.mode = "trivial" THEN "trivial" ELSE "retract_dom",
     invertible |-> r.invertible, inverse |-> "returned"]

\* section() of the triangular morphism r that section() of m returned: its
\* _inverse, which is m, when it is set
SectionOfReturned(m, r) ==
    IF r.inverse = "self" THEN MapObject(m)
    ELSE [id |-> "new", cls |-> r.cls, NI |-> r.NJ, NJ |-> r.NI,
          on_basis |-> "_invert_on_basis", triangular |-> r.triangular,
          unitriangular |-> r.unitriangular, cmp |-> r.cmp,
          mode |-> IF r.mode = "trivial" THEN "trivial" ELSE "retract_dom",
          invertible |-> r.invertible, inverse |-> "returned"]

\* retract_dom(i), the function that section() defines where the map is not in
\* trivial mode: its body takes the dominant index of on_basis(i), which
\* raises when on_basis(i) is zero, and has no return statement
RetractDom(m, i) ==
    IF IsZero(OnBasis(m, i))
    THEN [raised |-> TRUE, err |-> "EmptySupport", value |-> None]
    ELSE [raised |-> FALSE, err |-> "none", value |-> None]

\* r._inverse_on_support(i) for the triangular morphism r that section() of m
\* returned, built with inverse_on_support = retract_dom (None in trivial mode):
\* the value returned or the exception raised
InverseOnSupportOfReturned(m, r, i) ==
    IF r.mode = "trivial"
    THEN [raised |-> FALSE, err |-> "none", value |-> InverseOnSupportTrivial(i)]
    ELSE RetractDom(m, i)

\* __invert__ of the triangular morphism r that section() of m returned
InvertReturned(m, r) ==
    IF ~r.invertible THEN [raised |-> TRUE, err |-> "NonInvertible", map |-> NoMap]
    ELSE [raised |-> FALSE, err |-> "none", map |-> SectionOfReturned(m, r)]

RECURSIVE PreimageLoop(_, _, _, _, _, _)
\* the loop of preimage run to its end from the locals (remainder, out), n
\* iterations being done: the element returned or the exception raised, and the
\* memoization table left (done is false when MaxIter iterations do not end it)
PreimageLoop(m, table, f, rem, acc, n) ==
    IF IsZero(rem)
    THEN [done |-> TRUE, raised |-> FALSE, err |-> "none", errElt |-> Zero,
          out |-> acc, cache |-> table]
    ELSE IF n = MaxIter
    THEN [done |-> FALSE, raised |-> FALSE, err |-> "none", errElt |-> Zero,
          out |-> Zero, cache |-> table]
    ELSE LET r  == PreimageIteration(m, table, f, rem, acc)
             t2 == Memo(m, table, DominantItem(m, rem)[1])
         IN  IF r.raised
             THEN [done |-> TRUE, raised |-> TRUE, err |-> r.err, errElt |-> r.errElt,
                   out |-> Zero, cache |-> t2]
             ELSE PreimageLoop(m, t2, f, r.remainder, r.out, n + 1)

\* self.preimage(f), as the maps that section() returns call it
Preimage(m, table, f) == PreimageLoop(m, table, f, f, Zero, 0)

RECURSIVE CoreducedLoop(_, _, _, _, _, _)
\* the loop of coreduced run to its end from the locals (remainder, result), n
\* iterations being done: the element returned or the exception raised, and the
\* memoization table left (done is false when MaxIter iterations do not end it)
CoreducedLoop(m, table, y, rem, acc, n) ==
    IF IsZero(rem)
    THEN [done |-> TRUE, raised |-> FALSE, err |-> "none", errElt |-> Zero,
          out |-> acc, cache |-> table]
    ELSE IF n = MaxIter
    THEN [done |-> FALSE, raised |-> FALSE, err |-> "none", errElt |-> Zero,
          out |-> Zero, cache |-> table]
    ELSE LET r  == CoreducedIteration(m, table, y, rem, acc)
             t2 == Memo(m, table, DominantItem(m, rem)[1])
         IN  IF r.raised
             THEN [done |-> TRUE, raised |-> TRUE, err |-> r.err, errElt |-> r.errElt,
                   out |-> Zero, cache |-> t2]
             ELSE CoreducedLoop(m, t2, y, r.remainder, r.out, n + 1)

\* coreduced starting from the result y instead of zero
Coreduced_ResultFromY(m, table, y) ==
    IF RingGuardFails(m)
    THEN [done |-> TRUE, raised |-> TRUE, err |-> "NotImplementedRing", errElt |-> Zero,
          out |-> Zero, cache |-> table]
    ELSE CoreducedLoop(m, table, y, y, y, 0)

\* self.coreduced(y)
Coreduced(m, table, y) ==
    IF RingGuardFails(m)
    THEN [done |-> TRUE, raised |-> TRUE, err |-> "NotImplementedRing", errElt |-> Zero,
          out |-> Zero, cache |-> table]
    ELSE CoreducedLoop(m, table, y, y, Zero, 0)

\* cokernel_projection(): a morphism of the codomain into itself implemented by
\* the plain function self.coreduced
CokernelProjection(m) ==
    [id |-> "new", cls |-> "ModuleMorphismFromFunction", NI |-> m.NJ, NJ |-> m.NJ,
     on_basis |-> "coreduced", triangular |-> "none",
     unitriangular |-> FALSE, cmp |-> "none", mode |-> "none",
     invertible |-> FALSE, inverse |-> "none"]

\* the projection applying coreduced to the dominant term of y only
CokernelProjectionCall_DominantTerm(m, table, y) ==
    IF IsZero(y) THEN Coreduced(m, table, y)
    ELSE Coreduced(m, table, Term(DominantItem(m, y)[1], DominantItem(m, y)[2]))

\* cokernel_projection()(y): the function is called on the element y itself
CokernelProjectionCall(m, table, y) == Coreduced(m, table, y)

\* _invert_on_basis(i): self.preimage(self.codomain().monomial(i))
InvertOnBasis(m, table, i) == Preimage(m, table, Term(i, 1))

RECURSIVE InverseSum_IgnoresCoefficients(_, _, _, _)
\* the linear extension of _invert_on_basis forgetting the coefficients of y
InverseSum_IgnoresCoefficients(m, table, y, n) ==
    IF n = 0
    THEN [done |-> TRUE, raised |-> FALSE, err |-> "none", errElt |-> Zero,
          out |-> Zero, cache |-> table]
    ELSE LET p == InverseSum_IgnoresCoefficients(m, table, y, n - 1)
         IN  IF ~p.done \/ p.raised \/ y[n] = 0 THEN p
             ELSE LET q == InvertOnBasis(m, p.cache, n)
                  IN  IF ~q.done \/ q.raised THEN q
                      ELSE [q EXCEPT !.out = EAdd(m.ring, p.out, q.out)]

RECURSIVE InverseSum(_, _, _, _)
\* __call__ of the inverse on y, over the terms of y of index 1..n: the linear
\* combination of the _invert_on_basis(i), evaluated in the order of the indices
InverseSum(m, table, y, n) ==
    IF n = 0
    THEN [done |-> TRUE, raised |-> FALSE, err |-> "none", errElt |-> Zero,
          out |-> Zero, cache |-> table]
    ELSE LET p == InverseSum(m, table, y, n - 1)
         IN  IF ~p.done \/ p.raised \/ y[n] = 0 THEN p
             ELSE LET q == InvertOnBasis(m, p.cache, n)
                  IN  IF ~q.done \/ q.raised THEN q
                      ELSE [q EXCEPT !.out = EAdd(m.ring, p.out, LMul(m.ring, y[n], q.out))]

\* s(y) for the map s that section() returns: self.preimage(y) for the partial
\* map of a map that is not invertible, the linear extension of
\* _invert_on_basis for the triangular morphism of an invertible one
SectionCall(m, table, y) ==
    IF Section(m).on_basis = "preimage" THEN Preimage(m, table, y)
    ELSE InverseSum(m, table, y, MaxIdx)


\* ------------------------------------------------------------------ state
VARIABLES
    phi,        \* the attributes of the map object
    cache,      \* the memoization table of _inverse_on_support_precomputed
    pc,         \* "init" (in the constructor's loop), "ctor_raised", "ready",
                \* "loop" (in an elimination loop), "returned", "raised"
    op,         \* the method called last
    arg,        \* the element it was called on
    remainder,  \* the locals of the elimination loop
    out,
    iter,       \* iterations done (in the constructor: keys of the domain done)
    ret,        \* the element returned
    retList,    \* the list returned by cokernel_basis_indices
    retMap,     \* the map returned by __invert__ or section
    err,        \* the exception raised
    errElt,     \* the element its message names
    prev        \* the call whose result the argument of this call is, if any

vars == <<phi, cache, pc, op, arg, remainder, out, iter, ret, retList, retMap, err, errElt, prev>>

NoPrev == [op |-> "none", arg |-> Zero, ret |-> Zero]

\* the maps the caller builds: every family with the default cmp and invertible
\* and a finite-dimensional codomain; cmp, the invertible option and an
\* infinite-dimensional codomain are varied on the sums of basis elements over ZZ
Inputs ==
    {a \in InputArgs :
        /\ a.NJ = MaxIdx
        /\ a.NI <= a.NJ
        /\ (a.cmp = "perm" \/ ~a.codFinite \/ a.invertible # "None")
              => /\ a.fam.coef = "one" /\ a.fam.dir = "from"
                 /\ a.ring = "ZZ"
                 /\ (a.cmp = "perm" => a.codFinite /\ a.invertible = "None")
                 /\ (a.cmp # "perm" => a.triangular = "lower")}

Init ==
    /\ \E a \in Inputs :
        /\ phi = NewMap(a)
        /\ pc = IF a.inverse_on_support = "compute" THEN "init" ELSE "ready"
    /\ cache = EmptyCache
    /\ op = "none"
    /\ arg = Zero
    /\ remainder = Zero
    /\ out = Zero
    /\ iter = 0
    /\ ret = Zero
    /\ retList = << >>
    /\ retMap = NoMap
    /\ err = "none"
    /\ errElt = Zero
    /\ prev = NoPrev

\* the elements the caller passes: zero, the multiples of a basis element and
\* the sums of two of these
CallerElements(keys) ==
    {x \in [Idx -> 0..MaxCoef] : Support(x) \subseteq keys /\ Cardinality(Support(x)) <= 2}

DomainElements(m) == CallerElements(DomainKeys(m))

CodomainElements(m) == CallerElements(CodomainKeys(m))

\* a call on an element of the caller is made when no call is under way
Callable == pc = "ready"

\* the result of the call that has returned can be passed on to the next call
\* (once: the next call's result is not passed on)
Returned(o) == pc = "returned" /\ op = o /\ prev = NoPrev

ThisCall == [op |-> op, arg |-> arg, ret |-> ret]

\* the loop of __init__ keeping the first value set for a key
ConstructStep_KeepsFirst ==
    /\ pc = "init"
    /\ LET i == iter + 1
           s == OnBasis(phi, i)
       IN  IF IsZero(s)
           THEN /\ pc' = "ctor_raised"
                /\ err' = "EmptySupport"
                /\ UNCHANGED <<cache, iter>>
           ELSE /\ cache' = IF cache[DominantItem(phi, s)[1]] = Unset
                            THEN [cache EXCEPT ![DominantItem(phi, s)[1]] = i]
                            ELSE cache
                /\ iter' = i
                /\ pc' = IF i = phi.NI THEN "ready" ELSE "init"
                /\ err' = "none"
    /\ UNCHANGED <<phi, op, arg, remainder, out, ret, retList, retMap, errElt, prev>>

\* __init__ with inverse_on_support = "compute": one turn of the loop over the
\* keys of the domain, set_cache(i, j) giving the key j the value i
ConstructStep ==
    /\ pc = "init"
    /\ LET i == iter + 1
           s == OnBasis(phi, i)
       IN  IF IsZero(s)
           THEN /\ pc' = "ctor_raised"
                /\ err' = "EmptySupport"
                /\ UNCHANGED <<cache, iter>>
           ELSE /\ cache' = [cache EXCEPT ![DominantItem(phi, s)[1]] = i]
                /\ iter' = i
                /\ pc' = IF i = phi.NI THEN "ready" ELSE "init"
                /\ err' = "none"
    /\ UNCHANGED <<phi, op, arg, remainder, out, ret, retList, retMap, errElt, prev>>

\* the variables a call leaves alone or resets
StartCall(o, a, p) ==
    /\ op' = o
    /\ arg' = a
    /\ prev' = p
    /\ UNCHANGED phi

\* phi(x)
CallApply ==
    /\ \E fresh \in BOOLEAN :
        \E x \in IF fresh THEN (IF Callable THEN DomainElements(phi) ELSE {})
                 ELSE IF Returned("preimage") THEN {ret} ELSE {} :
            /\ StartCall("apply", x, IF fresh THEN NoPrev ELSE ThisCall)
            /\ ret' = Call(phi, x)
    /\ pc' = "returned"
    /\ remainder' = Zero
    /\ out' = Zero
    /\ iter' = 0
    /\ err' = "none"
    /\ errElt' = Zero
    /\ retList' = << >>
    /\ retMap' = NoMap
    /\ UNCHANGED cache

\* the entry of an elimination loop on y: the loop is not entered when y is zero
EnterLoop(y) ==
    /\ remainder' = y
    /\ out' = Zero
    /\ iter' = 0
    /\ ret' = Zero
    /\ err' = "none"
    /\ errElt' = Zero
    /\ pc' = IF IsZero(y) THEN "returned" ELSE "loop"
    /\ retList' = << >>
    /\ retMap' = NoMap
    /\ UNCHANGED cache

\* the iteration whose subtraction is made in place, in the element the caller
\* passed
LeaveIteration_InPlace(r) ==
    /\ cache' = Memo(phi, cache, DominantItem(phi, remainder)[1])
    /\ remainder' = r.remainder
    /\ arg' = r.remainder
    /\ out' = r.out
    /\ iter' = iter + 1
    /\ err' = r.err
    /\ errElt' = r.errElt
    /\ pc' = IF r.raised THEN "raised" ELSE IF IsZero(r.remainder) THEN "returned" ELSE "loop"
    /\ ret' = IF ~r.raised /\ IsZero(r.remainder) THEN r.out ELSE Zero
    /\ UNCHANGED <<phi, op, retList, retMap, prev>>

\* the effect of one iteration r of an elimination loop
LeaveIteration(r) ==
    /\ cache' = Memo(phi, cache, DominantItem(phi, remainder)[1])
    /\ remainder' = r.remainder
    /\ out' = r.out
    /\ iter' = iter + 1
    /\ err' = r.err
    /\ errElt' = r.errElt
    /\ pc' = IF r.raised THEN "raised" ELSE IF IsZero(r.remainder) THEN "returned" ELSE "loop"
    /\ ret' = IF ~r.raised /\ IsZero(r.remainder) THEN r.out ELSE Zero
    /\ UNCHANGED <<phi, op, arg, retList, retMap, prev>>

\* phi.preimage(y)
CallPreimage ==
    /\ \E fresh \in BOOLEAN :
        \E y \in IF fresh THEN (IF Callable THEN CodomainElements(phi) ELSE {})
                 ELSE IF Returned("apply") THEN {ret} ELSE {} :
            /\ StartCall("preimage", y, IF fresh THEN NoPrev ELSE ThisCall)
            /\ EnterLoop(y)

StepPreimage ==
    /\ pc = "loop"
    /\ op = "preimage"
    /\ iter < MaxIter
    /\ LeaveIteration(PreimageIteration(phi, cache, arg, remainder, out))

\* phi.coreduced(y)
CallCoreduced ==
    /\ \E fresh \in BOOLEAN :
        \E y \in IF fresh THEN (IF Callable THEN CodomainElements(phi) ELSE {})
                 ELSE IF Returned("apply") \/ Returned("coreduced") THEN {ret} ELSE {} :
            /\ StartCall("coreduced", y, IF fresh THEN NoPrev ELSE ThisCall)
            /\ IF RingGuardFails(phi)
               THEN /\ pc' = "raised"
                    /\ err' = "NotImplementedRing"
                    /\ errElt' = Zero
                    /\ remainder' = Zero
                    /\ out' = Zero
                    /\ iter' = 0
                    /\ ret' = Zero
                    /\ retList' = << >>
                    /\ retMap' = NoMap
                    /\ UNCHANGED cache
               ELSE EnterLoop(y)

StepCoreduced ==
    /\ pc = "loop"
    /\ op = "coreduced"
    /\ iter < MaxIter
    /\ LeaveIteration(CoreducedIteration(phi, cache, arg, remainder, out))

\* a call that runs no elimination loop leaves no locals
NoLoop ==
    /\ remainder' = Zero
    /\ out' = Zero
    /\ iter' = 0
    /\ ret' = Zero
    /\ errElt' = Zero

\* phi.cokernel_basis_indices()
CallCokernelBasisIndices ==
    /\ Callable
    /\ StartCall("cokernel_basis_indices", Zero, NoPrev)
    /\ LET r == CokernelBasisIndices(phi, cache)
       IN  /\ pc' = IF r.raised THEN "raised" ELSE "returned"
           /\ err' = r.err
           /\ retList' = r.list
    /\ cache' = CokernelMemo(phi, cache)
    /\ retMap' = NoMap
    /\ NoLoop

\* ~phi
CallInvert ==
    /\ Callable
    /\ StartCall("__invert__", Zero, NoPrev)
    /\ LET r == Invert(phi)
       IN  /\ pc' = IF r.raised THEN "raised" ELSE "returned"
           /\ err' = r.err
           /\ retMap' = r.map
    /\ retList' = << >>
    /\ NoLoop
    /\ UNCHANGED cache

\* phi.section()
CallSection ==
    /\ Callable
    /\ StartCall("section", Zero, NoPrev)
    /\ pc' = "returned"
    /\ err' = "none"
    /\ retMap' = Section(phi)
    /\ retList' = << >>
    /\ NoLoop
    /\ UNCHANGED cache

\* the effect of a call r of a map that section() or __invert__ returned
ReturnedMapCall(r) ==
    /\ r.done
    /\ pc' = IF r.raised THEN "raised" ELSE "returned"
    /\ ret' = r.out
    /\ err' = r.err
    /\ errElt' = r.errElt
    /\ cache' = r.cache
    /\ remainder' = Zero
    /\ out' = Zero
    /\ iter' = 0
    /\ retList' = << >>

\* phi.section()(y)
CallSectionApply ==
    /\ \E fresh \in BOOLEAN :
        \E y \in IF fresh THEN (IF Callable THEN CodomainElements(phi) ELSE {})
                 ELSE IF Returned("apply") THEN {ret} ELSE {} :
            /\ StartCall("section_apply", y, IF fresh THEN NoPrev ELSE ThisCall)
            /\ ReturnedMapCall(SectionCall(phi, cache, y))
    /\ retMap' = Section(phi)

\* (~phi)(y)
CallInvertApply ==
    /\ \E fresh \in BOOLEAN :
        \E y \in IF fresh THEN (IF Callable THEN CodomainElements(phi) ELSE {})
                 ELSE IF Returned("apply") THEN {ret} ELSE {} :
            /\ StartCall("inverse_apply", y, IF fresh THEN NoPrev ELSE ThisCall)
            /\ IF Invert(phi).raised
               THEN /\ pc' = "raised"
                    /\ err' = Invert(phi).err
                    /\ retList' = << >>
                    /\ NoLoop
                    /\ UNCHANGED cache
               ELSE ReturnedMapCall(SectionCall(phi, cache, y))
    /\ retMap' = Invert(phi).map


\* phi.cokernel_projection()(y), on an element of the caller or on the element
\* that coreduced has just been called on
CallCokernelProjectionApply ==
    /\ \E fresh \in BOOLEAN :
        \E y \in IF fresh THEN (IF Callable THEN CodomainElements(phi) ELSE {})
                 ELSE IF Returned("coreduced") THEN {arg} ELSE {} :
            /\ StartCall("cokernel_projection_apply", y, IF fresh THEN NoPrev ELSE ThisCall)
            /\ ReturnedMapCall(CokernelProjectionCall(phi, cache, y))
    /\ retMap' = CokernelProjection(phi)

\* phi._test_triangular(): iter is the key at which it stops
CallTestTriangular ==
    /\ Callable
    /\ StartCall("_test_triangular", Zero, NoPrev)
    /\ LET r == TestTriangular(phi, cache, 1)
       IN  /\ pc' = IF r.raised THEN "raised" ELSE "returned"
           /\ err' = r.err
           /\ iter' = r.key
    /\ cache' = TestMemo(phi, cache)
    /\ remainder' = Zero
    /\ out' = Zero
    /\ ret' = Zero
    /\ errElt' = Zero
    /\ retList' = << >>
    /\ retMap' = NoMap

\* ~r for the triangular morphism r that ~phi or phi.section() has returned
CallInvertReturned ==
    /\ pc = "returned"
    /\ op \in {"__invert__", "section"}
    /\ retMap.cls = "TriangularModuleMorphism"
    /\ StartCall("inverse.__invert__", Zero, ThisCall)
    /\ LET r == InvertReturned(phi, retMap)
       IN  /\ pc' = IF r.raised THEN "raised" ELSE "returned"
           /\ err' = r.err
           /\ retMap' = r.map
    /\ retList' = << >>
    /\ NoLoop
    /\ UNCHANGED cache

\* the call is over: its result or its exception is with the caller
Finish ==
    /\ pc \in {"returned", "raised"}
    /\ pc' = "ready"
    /\ op' = "none"
    /\ arg' = Zero
    /\ prev' = NoPrev
    /\ err' = "none"
    /\ retList' = << >>
    /\ retMap' = NoMap
    /\ NoLoop
    /\ UNCHANGED <<phi, cache>>

Next ==
    \/ ConstructStep
    \/ CallApply
    \/ CallPreimage
    \/ StepPreimage
    \/ CallCoreduced
    \/ StepCoreduced
    \/ CallCokernelBasisIndices
    \/ CallInvert
    \/ CallSection
    \/ CallSectionApply
    \/ CallInvertApply
    \/ CallInvertReturned
    \/ CallCokernelProjectionApply
    \/ CallTestTriangular
    \/ Finish

Spec == Init /\ [][Next]_vars

\* the morphisms by linearity that are not triangular, built by the caller
LinearInputs ==
    {a \in LinearArgs :
        /\ a.NJ = MaxIdx
        /\ a.zero # <<>> => Cardinality(Support(a.zero)) <= 2}

InitLinear ==
    /\ \E a \in LinearInputs : phi = NewLinearMap(a)
    /\ pc = "ready"
    /\ cache = EmptyCache
    /\ op = "none"
    /\ arg = Zero
    /\ remainder = Zero
    /\ out = Zero
    /\ iter = 0
    /\ ret = Zero
    /\ retList = << >>
    /\ retMap = NoMap
    /\ err = "none"
    /\ errElt = Zero
    /\ prev = NoPrev

NextLinear ==
    \/ CallApply
    \/ Finish

SpecLinear == InitLinear /\ [][NextLinear]_vars

\* ------------------------------------------------------------------ properties
\* the result of the call before this one was passed to this call
After(o) == prev.op = o

\* C1: whenever preimage(y) returns an element x, apply(x) == y; inside the
\* loop of preimage and at its exit, remainder + apply(out) == y.
C1_PreimageSound ==
    /\ (op = "preimage" /\ pc \in {"loop", "returned"})
          => EAdd(phi.ring, remainder, Apply(phi, out)) = arg
    /\ (op = "apply" /\ pc = "returned" /\ After("preimage")) => ret = prev.arg

\* apply has been called on a preimage of two terms or more
C1_Witness ==
    /\ op = "apply" /\ pc = "returned" /\ After("preimage")
    /\ Cardinality(Support(arg)) >= 2
    /\ ret = prev.arg

\* C2: for a map that satisfies the triangularity invariant, preimage(apply(x))
\* raises nothing, runs one iteration for each term of x at most, and returns x.
C2_RoundTrip ==
    (op = "preimage" /\ After("apply") /\ IsTriangular(phi, cache))
        => /\ pc # "raised"
           /\ pc = "loop" => iter < Cardinality(Support(prev.arg))
           /\ pc = "returned" => ret = prev.arg

\* preimage has returned the x of two terms that apply was called on, for a map
\* that is not unitriangular over ZZ
C2_Witness ==
    /\ op = "preimage" /\ After("apply") /\ IsTriangular(phi, cache)
    /\ pc = "returned" /\ ret = prev.arg
    /\ Cardinality(Support(ret)) = 2
    /\ ~phi.unitriangular /\ phi.ring = "ZZ" /\ phi.fam.coef = "two"

\* the basis element of the codomain of index j
BasisElement(j) == Term(j, 1)

\* C3 as stated: for every index j of the codomain basis with
\* inverse_on_support(j) defined, preimage(e_j) is computed (here for the
\* unitriangular maps that satisfy the triangularity invariant, with an
\* inverse_on_support as the class documents it).
C3_Stated ==
    \A j \in CodomainKeys(phi) :
        (/\ op = "preimage" /\ arg = BasisElement(j)
         /\ InverseOnSupport(phi, cache, j) # None
         /\ IsTriangular(phi, cache) /\ phi.unitriangular
         /\ InverseOnSupportAsDocumented(phi, cache))
            => pc # "raised"

\* C3 amended: for every index j of the codomain basis with
\* inverse_on_support(j) defined, preimage(e_j) does not fail with not-in-image
\* in its first iteration, and when it returns x, apply(x) == e_j.
C3_BasisSection ==
    \A j \in CodomainKeys(phi) :
        /\ (/\ op = "preimage" /\ arg = BasisElement(j) /\ err = "NotInImage"
            /\ InverseOnSupport(phi, cache, j) # None) => iter >= 2
        /\ (/\ op = "apply" /\ pc = "returned" /\ After("preimage")
            /\ prev.arg = BasisElement(j)
            /\ InverseOnSupport(phi, cache, j) # None) => ret = BasisElement(j)

\* apply has given back e_j on the preimage of e_j, which has several terms
C3_Witness ==
    \E j \in CodomainKeys(phi) :
        /\ op = "apply" /\ pc = "returned" /\ After("preimage")
        /\ prev.arg = BasisElement(j)
        /\ InverseOnSupport(phi, cache, j) # None
        /\ Cardinality(Support(arg)) >= 2
        /\ ret = BasisElement(j)

\* C4: preimage(y) fails with not-in-image exactly in the iteration that finds
\* inverse_on_support undefined at the dominant index of the (nonzero)
\* remainder; the error names the target y and nothing is returned.
C4_NotInImage ==
    [][ /\ (pc = "loop" /\ op = "preimage")
            => ((pc' = "raised" /\ err' = "NotInImage")
                  <=> InverseOnSupport(phi, cache, DominantItem(phi, remainder)[1]) = None)
        /\ (op' = "preimage" /\ err' = "NotInImage" /\ err # "NotInImage")
            => /\ pc = "loop" /\ op = "preimage" /\ ~IsZero(remainder)
               /\ pc' = "raised"
               /\ errElt' = arg
               /\ ret' = Zero
               /\ remainder' = remainder
               /\ out' = out ]_vars

\* preimage of a basis element has failed with not-in-image after an iteration
\* that went through, as preimage(e_4) in the shift map
C4_Witness ==
    /\ op = "preimage" /\ pc = "raised" /\ err = "NotInImage"
    /\ \E j \in CodomainKeys(phi) : arg = BasisElement(j)
    /\ iter >= 2
    /\ errElt = arg /\ remainder # arg
    /\ phi.fam.shift = 1 /\ phi.ios = "shift1"

\* the map is unitriangular or over a field
Supported(m) == m.unitriangular \/ IsField(m.ring)

\* C5: for a map that satisfies the triangularity invariant, unitriangular or
\* over a field, coreduced(apply(x)) raises nothing, retains no term and
\* returns zero, after one iteration for each term of x at most.
C5_CoreducedKillsImage ==
    (op = "coreduced" /\ After("apply") /\ IsTriangular(phi, cache) /\ Supported(phi))
        => /\ pc # "raised"
           /\ out = Zero
           /\ pc = "loop" => iter < Cardinality(Support(prev.arg))
           /\ pc = "returned" => ret = Zero

\* coreduced has returned zero on the image of an x of two terms, for a map
\* over the field that is not unitriangular
C5_Witness ==
    /\ op = "coreduced" /\ After("apply") /\ IsTriangular(phi, cache)
    /\ pc = "returned" /\ ret = Zero /\ iter = 2
    /\ Cardinality(Support(prev.arg)) = 2
    /\ ~phi.unitriangular /\ IsField(phi.ring) /\ phi.fam.coef # "one"

\* C6: coreduced(coreduced(y)) raises nothing and returns coreduced(y).
C6_CoreducedIdempotent ==
    (op = "coreduced" /\ After("coreduced"))
        => /\ pc # "raised"
           /\ pc = "loop" => iter < Cardinality(Support(arg))
           /\ pc = "returned" => ret = arg

\* coreduced has returned, unchanged, a nonzero element that coreduced returned
\* for an element it had to change
C6_Witness ==
    /\ op = "coreduced" /\ After("coreduced") /\ pc = "returned"
    /\ ret = arg /\ ~IsZero(ret)
    /\ prev.arg # prev.ret

\* a call of the method o begins
Calls(o) == pc \in {"ready", "returned"} /\ op' = o /\ pc' \in {"loop", "returned", "raised"}

\* C7: coreduced and cokernel_basis_indices raise the not-implemented error of
\* the ring, before any iteration or lookup, when the map is not unitriangular
\* and the ring not a field; cokernel_basis_indices then raises the one of the
\* dimension when the codomain is not finite-dimensional; neither raises such
\* an error otherwise (the projection on the cokernel raises the one that its
\* call of coreduced raises).
C7_UnsupportedGuard ==
    [][ /\ Calls("coreduced") =>
            IF RingGuardFails(phi)
            THEN /\ pc' = "raised" /\ err' = "NotImplementedRing"
                 /\ cache' = cache /\ iter' = 0 /\ out' = Zero /\ ret' = Zero
            ELSE pc' # "raised"
        /\ Calls("cokernel_basis_indices") =>
            IF RingGuardFails(phi)
            THEN /\ pc' = "raised" /\ err' = "NotImplementedRing"
                 /\ cache' = cache /\ retList' = << >>
            ELSE IF ~phi.codFinite
            THEN /\ pc' = "raised" /\ err' = "NotImplementedInfinite"
                 /\ cache' = cache /\ retList' = << >>
            ELSE pc' = "returned" /\ err' = "none"
        /\ err' = "NotImplementedRing"
            => /\ RingGuardFails(phi)
               /\ op' \in {"coreduced", "cokernel_basis_indices", "cokernel_projection_apply"}
        /\ err' = "NotImplementedInfinite"
            => ~phi.codFinite /\ ~RingGuardFails(phi) /\ op' = "cokernel_basis_indices" ]_vars

\* cokernel_basis_indices has raised the error of the ring on a map whose
\* codomain is not finite-dimensional either
C7_Witness ==
    /\ op = "cokernel_basis_indices" /\ pc = "raised" /\ err = "NotImplementedRing"
    /\ ~phi.codFinite /\ RingGuardFails(phi)

\* the inverse_on_support that the caller gives is as the class documents it
GivenAsDocumented(m, table) ==
    m.mode = "explicit" => InverseOnSupportAsDocumented(m, table)

\* the indices of the codomain that are the dominant index of no on_basis(i)
NeverDominant(m) ==
    {j \in CodomainKeys(m) :
        \A i \in DomainKeys(m) :
            IsZero(OnBasis(m, i)) \/ DominantItem(m, OnBasis(m, i))[1] # j}

\* the elements of a list
Range(l) == {l[k] : k \in 1..Len(l)}

\* C8 as stated, for the maps that satisfy the triangularity invariant (with an
\* inverse_on_support as documented when the caller gives it):
\* cokernel_basis_indices returns, in the order of the codomain keys and
\* without repetition, the keys j with inverse_on_support(j) undefined, and
\* these are the indices that are the dominant index of no element of the image.
C8_Stated ==
    (/\ op = "cokernel_basis_indices" /\ pc = "returned"
     /\ IsTriangular(phi, cache) /\ GivenAsDocumented(phi, cache))
        => /\ \A k, l \in 1..Len(retList) : k < l => retList[k] < retList[l]
           /\ Range(retList) =
                 {j \in CodomainKeys(phi) : InverseOnSupport(phi, cache, j) = None}
           /\ Range(retList) = NeverDominant(phi)

\* C9 as stated, for the unitriangular maps that satisfy the triangularity
\* invariant (and so are injective), in every inverse-index mode, the
\* inverse_on_support given by the caller being as documented:
\* len(cokernel_basis_indices()) == dim(codomain) - dim(domain).
C9_Stated ==
    (/\ op = "cokernel_basis_indices" /\ pc = "returned"
     /\ phi.unitriangular
     /\ IsTriangular(phi, cache) /\ GivenAsDocumented(phi, cache))
        => Len(retList) = phi.NJ - phi.NI

\* C10: __invert__ on a map whose invertible flag is false raises the
\* non-invertible error and returns no map; on a map whose flag is true it
\* returns what section() returns, a triangular morphism.
C10_InvertGuard ==
    op = "__invert__"
        => IF phi.invertible
           THEN /\ pc = "returned" /\ err = "none"
                /\ retMap = Section(phi)
                /\ retMap.cls = "TriangularModuleMorphism"
           ELSE /\ pc = "raised" /\ err = "NonInvertible"
                /\ retMap = NoMap

\* __invert__ has raised on a map that satisfies the triangularity invariant,
\* whose section exists as a partial map
C10_Witness ==
    /\ op = "__invert__" /\ pc = "raised" /\ err = "NonInvertible"
    /\ ~phi.invertible /\ phi.NI < phi.NJ
    /\ IsTriangular(phi, cache)
    /\ Section(phi).cls = "SetMorphism"

\* y is the image of an element of the domain, over the field (whose modules
\* are finite sets that are gone through)
InImage(m, y) ==
    \E x \in [Idx -> 0..4] : Support(x) \subseteq DomainKeys(m) /\ Apply(m, x) = y

\* C11 as stated, for the maps over the field that satisfy the triangularity
\* invariant and whose invertible flag is false: section() returns a partial
\* map s built on preimage; s(apply(x)) == x for every basis element x of the
\* domain; s(y) fails for every y of the codomain that is not in the image.
C11_Stated ==
    (/\ op = "section_apply" /\ ~phi.invertible
     /\ IsField(phi.ring) /\ IsTriangular(phi, cache))
        => /\ retMap.cls = "SetMorphism" /\ retMap.on_basis = "preimage"
           /\ (After("apply") /\ (\E i \in DomainKeys(phi) : prev.arg = Term(i, 1)))
                 => (pc = "returned" /\ ret = prev.arg)
           /\ ~InImage(phi, arg) => pc = "raised"

\* C12: for an invertible map phi, ~(~phi) raises nothing and returns phi
\* itself, not a new map (so does ~(phi.section())).
C12_DoubleInversion ==
    op = "inverse.__invert__"
        => /\ pc = "returned" /\ err = "none"
           /\ retMap.id = "self"
           /\ retMap = MapObject(phi)

\* ~(~phi) has returned phi for a map built in compute mode
C12_Witness ==
    /\ op = "inverse.__invert__" /\ After("__invert__") /\ pc = "returned"
    /\ phi.invertible /\ phi.mode = "compute"
    /\ retMap.id = "self"

\* preimage returns an element on every basis element of the codomain
PreimageOnBasisDefined(m, table) ==
    \A j \in CodomainKeys(m) :
        Preimage(m, table, Term(j, 1)).done /\ ~Preimage(m, table, Term(j, 1)).raised

\* C13: for an invertible map phi with preimage defined on every basis element
\* of the codomain, (~phi)(y) raises nothing and is phi.preimage(y), which
\* returns, for every element y of the codomain; and (~phi)(phi(x)) == x for
\* every element x of the domain.
C13_InverseIsPreimage ==
    (/\ op = "inverse_apply" /\ phi.invertible
     /\ PreimageOnBasisDefined(phi, cache))
        => /\ pc = "returned" /\ err = "none"
           /\ Preimage(phi, cache, arg).done /\ ~Preimage(phi, cache, arg).raised
           /\ ret = Preimage(phi, cache, arg).out
           /\ Apply(phi, ret) = arg
           /\ After("apply") => ret = prev.arg

\* (~phi)(phi(x)) has returned the x of two terms, the images of the basis
\* elements under ~phi having several terms
C13_Witness ==
    /\ op = "inverse_apply" /\ phi.invertible /\ After("apply")
    /\ PreimageOnBasisDefined(phi, cache)
    /\ pc = "returned" /\ ret = prev.arg
    /\ Cardinality(Support(ret)) = 2
    /\ \E j \in CodomainKeys(phi) :
          Cardinality(Support(InvertOnBasis(phi, cache, j).out)) >= 2

\* the basis index sets of the domain and of the codomain are equal (the index
\* set of a codomain that is not finite-dimensional is no 1..n)
SameKeys(m) == m.codFinite /\ DomainKeys(m) = CodomainKeys(m)

\* C14: the invertible flag of the map is the invertible option when it is
\* given, whatever the index sets are, and else (domain keys == codomain keys).
C14_InvertibleFlag ==
    /\ phi.invertible_arg = "None" => (phi.invertible <=> SameKeys(phi))
    /\ phi.invertible_arg = "True" => phi.invertible
    /\ phi.invertible_arg = "False" => ~phi.invertible

\* a map has been built with invertible=True between modules whose index sets
\* differ, its flag is set and ~phi has returned a map
C14_Witness ==
    /\ op = "__invert__" /\ pc = "returned"
    /\ phi.invertible_arg = "True" /\ ~SameKeys(phi) /\ phi.NI < phi.NJ
    /\ phi.invertible

\* the keys of the domain at which the assertions of _test_triangular fail
Offending(m, table) == {x \in DomainKeys(m) : ~TriangularOn(m, table, x)}

\* C15 as stated: _test_triangular passes if and only if every key of the
\* domain satisfies the invariant, and else raises an assertion failure that
\* names the first offending key.
C15_Stated ==
    op = "_test_triangular"
        => /\ pc = "returned" <=> IsTriangular(phi, cache)
           /\ pc = "raised"
                 => /\ err \in {"AssertNotUnitriangular", "AssertNotTriangular"}
                    /\ iter \in Offending(phi, cache)
                    /\ \A x \in Offending(phi, cache) : iter <= x

\* C15 amended: _test_triangular passes if and only if every key of the domain
\* satisfies the invariant; else it raises at the first offending key i: the
\* error of the empty support when on_basis(i) is zero, and else an assertion
\* failure naming i, that of the unit coefficient when the map is declared
\* unitriangular and the dominant coefficient is not one (whatever the index
\* check gives), that of the index otherwise.
C15_TestTriangular ==
    op = "_test_triangular"
        => /\ pc = "returned" <=> IsTriangular(phi, cache)
           /\ pc = "returned" => (err = "none" /\ iter = phi.NI)
           /\ pc = "raised"
                 => /\ iter \in Offending(phi, cache)
                    /\ \A x \in Offending(phi, cache) : iter <= x
                    /\ LET s == OnBasis(phi, iter)
                       IN  IF IsZero(s) THEN err = "EmptySupport"
                           ELSE IF phi.unitriangular /\ DominantItem(phi, s)[2] # 1
                           THEN err = "AssertNotUnitriangular"
                           ELSE /\ err = "AssertNotTriangular"
                                /\ InverseOnSupport(phi, cache, DominantItem(phi, s)[1]) # iter

\* _test_triangular has raised the failure of the unit coefficient at a key
\* where the index check fails as well
C15_Witness ==
    /\ op = "_test_triangular" /\ pc = "raised" /\ err = "AssertNotUnitriangular"
    /\ InverseOnSupport(phi, cache, DominantItem(phi, OnBasis(phi, iter))[1]) # iter

\* C16: apply(x) is the designated zero plus the sum of the c * on_basis(i)
\* over the terms (i, c) of x; it is that sum itself for a map into a module
\* with basis over the same ring whose designated zero is the zero of the
\* codomain; apply of the zero of the domain is the designated zero.
C16_LinearExtension ==
    (op = "apply" /\ pc = "returned")
        => /\ ret = EAdd(phi.ring, phi.zero, Apply(phi, arg))
           /\ phi.same => (phi.zero = Zero /\ ret = Apply(phi, arg))
           /\ IsZero(arg) => ret = phi.zero

\* apply has returned the image of an x of two terms under an affine map into
\* a module with basis, which is not the sum alone
C16_Witness ==
    /\ op = "apply" /\ pc = "returned"
    /\ ~phi.same /\ phi.zero # Zero
    /\ Cardinality(Support(arg)) = 2
    /\ ret # Apply(phi, arg)
    /\ ret = EAdd(phi.ring, phi.zero, Apply(phi, arg))

\* C17: in an iteration of preimage that passes the index checks, with s =
\* on_basis(inverse_on_support(j)) for the dominant term (j, c) of the
\* remainder: a map declared unitriangular divides nothing and uses c itself;
\* a map that is not uses the q of the ring with q * s[j] == c when there is
\* one, and else preimage raises the error of the division and returns
\* nothing; that error comes from preimage (called by the caller or by a map
\* that section() returned) on a map not declared unitriangular over a ring
\* that is no field, and from nothing else.
C17_ExactDivision ==
    [][ /\ (pc = "loop" /\ op = "preimage")
            => LET j == DominantItem(phi, remainder)[1]
                   c == DominantItem(phi, remainder)[2]
                   i == InverseOnSupport(phi, cache, j)
                   s == OnBasis(phi, i)
                   q == RSub(phi.ring, out'[i], out[i])
               IN  (i # None /\ ~IsZero(s) /\ DominantItem(phi, s)[1] = j)
                     => IF phi.unitriangular \/ Divides(phi.ring, c, s[j])
                        THEN /\ pc' # "raised" /\ err' = "none"
                             /\ IF phi.unitriangular THEN q = c
                                ELSE RMul(phi.ring, q, s[j]) = c
                             /\ out' = EAdd(phi.ring, out, Term(i, q))
                             /\ remainder' = ESub(phi.ring, remainder, LMul(phi.ring, q, s))
                        ELSE /\ pc' = "raised" /\ err' = "Inexact"
                             /\ ret' = Zero
        /\ (err' = "Inexact" /\ err # "Inexact")
            => /\ \/ pc = "loop" /\ op = "preimage"
                  \/ op' \in {"section_apply", "inverse_apply"}
               /\ ~phi.unitriangular /\ ~IsField(phi.ring) ]_vars

\* preimage over ZZ has raised the error of the division in its second
\* iteration, the first having divided exactly by a coefficient that is not one
C17_Witness ==
    /\ op = "preimage" /\ pc = "raised" /\ err = "Inexact"
    /\ iter = 2 /\ ~IsZero(out)
    /\ phi.ring = "ZZ" /\ ~phi.unitriangular /\ phi.fam.coef = "idx"

\* the triangularity invariant on the indices that inverse_on_support reaches:
\* the dominant index of on_basis(inverse_on_support(j)) is j, and its
\* coefficient is one when the map is declared unitriangular
InvariantOnSupport(m, table) ==
    \A j \in CodomainKeys(m) :
        LET i == InverseOnSupport(m, table, j)
            s == OnBasis(m, i)
        IN  i # None => /\ ~IsZero(s)
                        /\ DominantItem(m, s)[1] = j
                        /\ m.unitriangular => DominantItem(m, s)[2] = 1

\* C18: for a map with a finite-dimensional codomain that satisfies the
\* triangularity invariant, preimage(y) and coreduced(y) return or raise after
\* one iteration for each index of the codomain at most: a call that is still
\* in its loop has run fewer iterations than the codomain has indices (and
\* fewer than MaxIter, so its next iteration is followed), and a call that is
\* over has run that many at most.
C18_Termination ==
    (/\ op \in {"preimage", "coreduced"}
     /\ phi.codFinite /\ InvariantOnSupport(phi, cache))
        => /\ pc = "loop" => (iter < phi.NJ /\ iter < MaxIter)
           /\ pc \in {"returned", "raised"} => iter <= phi.NJ

\* preimage has returned after one iteration for each index of the codomain
C18_Witness ==
    /\ op = "preimage" /\ pc = "returned"
    /\ phi.codFinite /\ InvariantOnSupport(phi, cache)
    /\ iter = phi.NJ /\ phi.NJ = MaxIdx

\* C19 as stated, for the maps that satisfy the triangularity invariant: the
\* triangular morphism that ~phi or phi.section() returns has an
\* inverse_on_support that sends each index i of the domain of phi to the
\* dominant index of on_basis(i) when phi is not in trivial mode, and to i
\* itself when it is.
C19_Stated ==
    (/\ op \in {"__invert__", "section"} /\ pc = "returned"
     /\ retMap.cls = "TriangularModuleMorphism"
     /\ IsTriangular(phi, cache))
        => \A i \in DomainKeys(phi) :
              /\ ~InverseOnSupportOfReturned(phi, retMap, i).raised
              /\ InverseOnSupportOfReturned(phi, retMap, i).value =
                    IF phi.mode = "trivial" THEN i
                    ELSE DominantItem(phi, OnBasis(phi, i))[1]

\* the keys of the domain whose image has the dominant index j
DominatedBy(m, j) ==
    {i \in DomainKeys(m) : ~IsZero(OnBasis(m, i)) /\ DominantItem(m, OnBasis(m, i))[1] = j}

\* the map has been built in compute mode
Computed == phi.mode = "compute" /\ pc \notin {"init", "ctor_raised"}

\* C20 as stated: after construction in compute mode, inverse_on_support(j) ==
\* i for every key i of the domain whose image has the dominant index j, and
\* inverse_on_support(j) is None for every j that is the dominant index of no
\* on_basis(i).
C20_Stated ==
    Computed
        => /\ \A j \in CodomainKeys(phi) :
                 \A i \in DominatedBy(phi, j) : InverseOnSupport(phi, cache, j) = i
           /\ \A j \in NeverDominant(phi) : InverseOnSupport(phi, cache, j) = None

\* C20 amended: after construction in compute mode, for every index j of the
\* codomain, inverse_on_support(j) is the last key i of the domain, in
\* enumeration order, whose image has the dominant index j (so it is i for
\* every key i when the dominant indices of the images are pairwise distinct),
\* and None when j is the dominant index of no on_basis(i).
C20_ComputeMode ==
    Computed
        => \A j \in CodomainKeys(phi) :
                 /\ DominatedBy(phi, j) # {}
                       => /\ InverseOnSupport(phi, cache, j) \in DominatedBy(phi, j)
                          /\ \A i \in DominatedBy(phi, j) : i <= InverseOnSupport(phi, cache, j)
                 /\ DominatedBy(phi, j) = {} => InverseOnSupport(phi, cache, j) = None

\* a map has been built in compute mode whose images all have the same
\* dominant index, and cokernel_basis_indices has returned the other indices
C20_Witness ==
    /\ Computed /\ op = "cokernel_basis_indices" /\ pc = "returned"
    /\ \E j \in CodomainKeys(phi) :
          /\ Cardinality(DominatedBy(phi, j)) >= 2
          /\ InverseOnSupport(phi, cache, j) = phi.NI
    /\ Len(retList) = phi.NJ - 1

\* C21 as stated: a key of the inverse-index table that has been given a value
\* never gets a different value and is never removed, across construction in
\* compute mode and every later call, also when two keys of the domain have
\* images with the same dominant index.
C21_Stated ==
    [][\A j \in Idx : cache[j] # Unset => cache'[j] = cache[j]]_vars

\* C21 amended: once construction is over, a key of the inverse-index table
\* that holds a value keeps it through every call (a call only gives None to
\* keys that held nothing), and outside compute mode the table is never
\* written; during construction a turn of the loop writes the dominant index of
\* the image of its key only, replacing the value an earlier key with the same
\* dominant index has left there.
C21_WriteOnceAfterConstruction ==
    [][/\ pc # "init"
          => \A j \in Idx : /\ cache[j] # Unset => cache'[j] = cache[j]
                            /\ cache'[j] # cache[j] => cache'[j] = None
       /\ phi.mode # "compute" => cache' = cache
       /\ pc = "init"
          => \A j \in Idx :
                cache'[j] # cache[j]
                   => /\ j = DominantItem(phi, OnBasis(phi, iter + 1))[1]
                      /\ cache'[j] = iter + 1]_vars

\* a map built in compute mode with two images of the same dominant index: a
\* call of preimage has looked up a key that construction had left unset, and
\* the key that construction wrote twice still holds its last value
C21_Witness ==
    /\ Computed /\ op = "preimage" /\ pc = "raised" /\ err = "NotInImage"
    /\ \E j \in CodomainKeys(phi) : cache[j] = None
    /\ \E j \in CodomainKeys(phi) :
          /\ Cardinality(DominatedBy(phi, j)) >= 2
          /\ cache[j] = phi.NI

\* C22: in every iteration of preimage where i = inverse_on_support(j) is
\* defined for the dominant index j of the remainder and on_basis(i) has a
\* dominant term, the call fails with the not-triangular error exactly when the
\* dominant index of on_basis(i) is not j, whatever the dominant coefficient
\* is; it fails at once: the call is over, with no result, and the remainder
\* and the partial preimage are as the iteration found them.
C22_NotTriangularCheck ==
    [][(pc = "loop" /\ op = "preimage")
          => LET j == DominantItem(phi, remainder)[1]
                 i == InverseOnSupport(phi, cache, j)
                 s == OnBasis(phi, i)
             IN  (i # None /\ ~IsZero(s))
                    => /\ DominantItem(phi, s)[1] # j
                          <=> (pc' = "raised" /\ err' = "NotTriangular")
                       /\ DominantItem(phi, s)[1] # j
                          => /\ remainder' = remainder /\ out' = out
                             /\ ret' = Zero /\ iter' = iter + 1]_vars

\* preimage has failed with the not-triangular error in its second iteration,
\* at an image whose dominant index is not the one of the remainder
C22_Witness ==
    /\ op = "preimage" /\ pc = "raised" /\ err = "NotTriangular" /\ iter = 2
    /\ LET j == DominantItem(phi, remainder)[1]
           s == OnBasis(phi, InverseOnSupport(phi, cache, j))
       IN  ~IsZero(s) /\ DominantItem(phi, s)[1] # j /\ ~IsZero(out)

\* C23: no step of a call of apply, preimage, coreduced,
\* cokernel_basis_indices, __invert__ or section, whether the call returns or
\* raises, changes a field of the map (domain, codomain, on_basis,
\* triangularity kind, unitriangular flag, comparator, invertible flag,
\* inverse_on_support function, inverse reference), and no iteration of an
\* elimination loop changes the element the caller passed (an element that a
\* call returned is passed on to the next call as it was returned); the table
\* of the cached method is the only other state of the map, and it changes
\* neither outside compute mode nor in apply, __invert__ and section.
C23_Purity ==
    [][/\ phi' = phi
       /\ pc = "loop" => (arg' = arg /\ op' = op)
       /\ (pc = "returned" /\ prev' # NoPrev
             /\ op' \notin {"inverse.__invert__", "cokernel_projection_apply"})
            => (arg' = ret /\ prev'.arg = arg /\ prev'.ret = ret)
       /\ phi.mode # "compute" => cache' = cache
       /\ op' \in {"apply", "__invert__", "section", "inverse.__invert__"} => cache' = cache]_vars

\* preimage has returned after two iterations at least on a nonzero element,
\* which is still the element the caller passed while the remainder is zero
C23_Witness ==
    /\ op = "preimage" /\ pc = "returned" /\ iter >= 2
    /\ ~IsZero(arg) /\ IsZero(remainder) /\ Call(phi, ret) = arg

\* C24 for the maps whose inverse_on_support is right at every index of the
\* codomain, which is more than _test_triangular checks (what the code does):
\* an iteration of
\* preimage or coreduced that is followed by another one clears the dominant
\* index of the remainder and leaves a remainder whose dominant index is
\* strictly smaller under the comparator (upper) or strictly larger (lower),
\* so that no index is the dominant index of the remainder in two iterations
\* of one call.
C24_MonotoneElimination ==
    [][(/\ pc = "loop" /\ pc' = "loop" /\ op \in {"preimage", "coreduced"}
        /\ InvariantOnSupport(phi, cache))
          => LET j == DominantItem(phi, remainder)[1]
                 k == DominantItem(phi, remainder')[1]
             IN  /\ remainder'[j] = 0
                 /\ phi.triangular = "upper" => Key(phi.cmp, k) < Key(phi.cmp, j)
                 /\ phi.triangular # "upper" => Key(phi.cmp, k) > Key(phi.cmp, j)]_vars

\* coreduced is in its loop after two iterations on a lower triangular map
\* that satisfies the invariant, under the comparator that is not the natural
\* order
C24_Witness ==
    /\ op = "coreduced" /\ pc = "loop" /\ iter = 2
    /\ InvariantOnSupport(phi, cache)
    /\ phi.triangular = "lower" /\ phi.cmp = "perm"

\* C25: coreduced never raises the not-in-image error. An iteration where
\* inverse_on_support(j) is None for the dominant index j of the remainder
\* moves the dominant term (j, c) from the remainder to the result and the loop
\* goes on with the rest (it returns when nothing is left); an iteration where
\* it is some i leaves the result as it was and, unless the image of i fails
\* the check on its dominant index, subtracts from the remainder c times
\* on_basis(i), with c divided by the dominant coefficient of on_basis(i) when
\* the map is not unitriangular.
C25_CoreducedIteration ==
    [][(pc = "loop" /\ op = "coreduced")
          => LET j == DominantItem(phi, remainder)[1]
                 c == DominantItem(phi, remainder)[2]
                 i == InverseOnSupport(phi, cache, j)
                 s == OnBasis(phi, i)
                 c2 == IF phi.unitriangular THEN c ELSE Quot(phi.ring, c, s[j])
             IN  /\ err' # "NotInImage"
                 /\ i = None
                    => /\ out' = EAdd(phi.ring, out, Term(j, c))
                       /\ remainder' = ESub(phi.ring, remainder, Term(j, c))
                       /\ pc' = IF IsZero(remainder') THEN "returned" ELSE "loop"
                       /\ pc' = "returned" => ret' = out'
                 /\ i # None
                    => /\ out' = out
                       /\ pc' # "raised"
                          => remainder' = ESub(phi.ring, remainder, LMul(phi.ring, c2, s))
                       /\ pc' = "raised"
                          => /\ remainder' = remainder
                             /\ IsZero(s) \/ DominantItem(phi, s)[1] # j]_vars

\* coreduced has returned a nonzero result that is not its argument, over a
\* field and on a map that is not unitriangular: it has divided in an
\* iteration and kept a term in another
C25_Witness ==
    /\ op = "coreduced" /\ pc = "returned" /\ iter >= 2
    /\ ~IsZero(ret) /\ ret # arg
    /\ ~phi.unitriangular /\ phi.fam.coef # "one"

\* C26 for the maps whose inverse_on_support is right at every index of the
\* codomain, which is more than _test_triangular checks (what the code does):
\* on such a map that is
\* unitriangular or over a field, a call preimage(y) returns exactly when
\* coreduced(y) is zero and raises the not-in-image error exactly when
\* coreduced(y) is not zero; it ends in no other way.
C26_MembershipAgreement ==
    (/\ op = "preimage" /\ pc \in {"returned", "raised"}
     /\ InvariantOnSupport(phi, cache) /\ Supported(phi))
        => LET r == Coreduced(phi, cache, arg)
           IN  /\ r.done /\ ~r.raised
               /\ pc = "returned" <=> IsZero(r.out)
               /\ (pc = "raised" /\ err = "NotInImage") <=> ~IsZero(r.out)

\* preimage has raised the not-in-image error in its second iteration on a
\* map that satisfies the invariant, and coreduced keeps a term of the element
C26_Witness ==
    /\ op = "preimage" /\ pc = "raised" /\ err = "NotInImage" /\ iter = 2
    /\ InvariantOnSupport(phi, cache) /\ Supported(phi)
    /\ ~IsZero(Coreduced(phi, cache, arg).out)
    /\ Coreduced(phi, cache, arg).out # arg

\* C27 as stated, for the maps that pass _test_triangular (with an
\* inverse_on_support as documented when the caller gives it) and are
\* unitriangular or over a field: when coreduced(y) returns r, the support of
\* r holds only indices j with inverse_on_support(j) None, and y - r is in the
\* image: preimage(y - r) returns an element x of the domain with
\* apply(x) == y - r.
C27_Stated ==
    (/\ op = "coreduced" /\ pc = "returned"
     /\ IsTriangular(phi, cache) /\ GivenAsDocumented(phi, cache) /\ Supported(phi))
        => LET d == ESub(phi.ring, arg, ret)
               p == Preimage(phi, cache, d)
           IN  /\ \A j \in Support(ret) : InverseOnSupport(phi, cache, j) = None
               /\ p.done /\ ~p.raised
               /\ Apply(phi, p.out) = d
               /\ Support(p.out) \subseteq DomainKeys(phi)

\* C27 without the membership of x in the domain: what the code does
C27_UpToDomain ==
    (/\ op = "coreduced" /\ pc = "returned"
     /\ IsTriangular(phi, cache) /\ GivenAsDocumented(phi, cache) /\ Supported(phi))
        => LET d == ESub(phi.ring, arg, ret)
               p == Preimage(phi, cache, d)
           IN  /\ \A j \in Support(ret) : InverseOnSupport(phi, cache, j) = None
               /\ p.done /\ ~p.raised
               /\ Apply(phi, p.out) = d

\* C28 as stated: for every map that passes _test_triangular, in every
\* inverse-index mode (the inverse_on_support given by the caller being as
\* documented), every index in the support of the element that preimage(y)
\* builds and returns is a key of the basis of the domain, and the index at
\* which an iteration of preimage evaluates on_basis is a key of the domain.
C28_Stated ==
    (/\ op = "preimage" /\ pc \in {"loop", "returned"}
     /\ IsTriangular(phi, cache) /\ GivenAsDocumented(phi, cache))
        => /\ Support(out) \subseteq DomainKeys(phi)
           /\ pc = "returned" => Support(ret) \subseteq DomainKeys(phi)
           /\ pc = "loop"
              => LET i == InverseOnSupport(phi, cache, DominantItem(phi, remainder)[1])
                 IN  i # None => i \in DomainKeys(phi)

\* the same outside the trivial mode: what the code does
C28_OutsideTrivialMode ==
    (/\ op = "preimage" /\ pc \in {"loop", "returned"}
     /\ IsTriangular(phi, cache) /\ GivenAsDocumented(phi, cache)
     /\ phi.mode # "trivial")
        => /\ Support(out) \subseteq DomainKeys(phi)
           /\ pc = "returned" => Support(ret) \subseteq DomainKeys(phi)
           /\ pc = "loop"
              => LET i == InverseOnSupport(phi, cache, DominantItem(phi, remainder)[1])
                 IN  i # None => i \in DomainKeys(phi)

\* the scalars of the linear combinations
Scalars == {0 - 1, 1, 2}

\* a*y + b*z
Combination(m, a, y, b, z) == EAdd(m.ring, LMul(m.ring, a, y), LMul(m.ring, b, z))

\* C29 for the maps whose inverse_on_support is right at every index of the
\* codomain, which is more than _test_triangular checks (what the code does):
\* on such a map that is
\* unitriangular or over a field, cokernel_projection()(y) returns what
\* coreduced(y) returns, and coreduced is linear: coreduced(a*y + b*z) ==
\* a*coreduced(y) + b*coreduced(z) for the elements z of the codomain and the
\* scalars a, b.
C29_CoreducedLinear ==
    (/\ op = "cokernel_projection_apply"
     /\ InvariantOnSupport(phi, cache) /\ Supported(phi))
        => /\ pc = "returned"
           /\ retMap.cls = "ModuleMorphismFromFunction"
           /\ After("coreduced") => (prev.arg = arg /\ ret = prev.ret)
           /\ \A z \in CodomainElements(phi) : \A a, b \in Scalars :
                 LET r == Coreduced(phi, cache, Combination(phi, a, arg, b, z))
                     t == Coreduced(phi, cache, z)
                 IN  /\ r.done /\ ~r.raised /\ t.done /\ ~t.raised
                     /\ r.out = Combination(phi, a, ret, b, t.out)

\* the projection has been applied to the element of two terms that coreduced
\* had been called on, and has returned one of the two terms, on a map over
\* the field that is not unitriangular
C29_Witness ==
    /\ op = "cokernel_projection_apply" /\ pc = "returned" /\ After("coreduced")
    /\ InvariantOnSupport(phi, cache) /\ IsField(phi.ring) /\ ~phi.unitriangular
    /\ Cardinality(Support(arg)) = 2 /\ Cardinality(Support(ret)) = 1
    /\ ret = prev.ret

\* C24 as stated, for the maps that pass _test_triangular (with an
\* inverse_on_support as documented when the caller gives it): an iteration of
\* preimage or coreduced that is followed by another one leaves a remainder
\* whose dominant index is strictly smaller under the comparator (upper) or
\* strictly larger (lower) than the one it found.
C24_Stated ==
    [][(/\ pc = "loop" /\ pc' = "loop" /\ op \in {"preimage", "coreduced"}
        /\ IsTriangular(phi, cache) /\ GivenAsDocumented(phi, cache))
          => LET j == DominantItem(phi, remainder)[1]
                 k == DominantItem(phi, remainder')[1]
             IN  /\ phi.triangular = "upper" => Key(phi.cmp, k) < Key(phi.cmp, j)
                 /\ phi.triangular # "upper" => Key(phi.cmp, k) > Key(phi.cmp, j)]_vars

\* C26 as stated, for the maps that pass _test_triangular (with an
\* inverse_on_support as documented when the caller gives it) and are
\* unitriangular or over a field: coreduced(y) has a value, preimage(y)
\* returns exactly when that value is zero and raises the not-in-image error
\* exactly when it is not zero.
C26_Stated ==
    (/\ op = "preimage" /\ pc \in {"returned", "raised"}
     /\ IsTriangular(phi, cache) /\ GivenAsDocumented(phi, cache) /\ Supported(phi))
        => LET r == Coreduced(phi, cache, arg)
           IN  /\ r.done /\ ~r.raised
               /\ pc = "returned" <=> IsZero(r.out)
               /\ (pc = "raised" /\ err = "NotInImage") <=> ~IsZero(r.out)

\* C29 as stated, for the maps that pass _test_triangular (with an
\* inverse_on_support as documented when the caller gives it) and are
\* unitriangular or over a field: cokernel_projection()(y) returns what
\* coreduced(y) returns, and coreduced(a*y + b*z) == a*coreduced(y) +
\* b*coreduced(z) for the elements z of the codomain and the scalars a, b.
C29_Stated ==
    (/\ op = "cokernel_projection_apply"
     /\ IsTriangular(phi, cache) /\ GivenAsDocumented(phi, cache) /\ Supported(phi))
        => /\ pc = "returned"
           /\ After("coreduced") => (prev.arg = arg /\ ret = prev.ret)
           /\ \A z \in CodomainElements(phi) : \A a, b \in Scalars :
                 LET r == Coreduced(phi, cache, Combination(phi, a, arg, b, z))
                     t == Coreduced(phi, cache, z)
                 IN  /\ r.done /\ ~r.raised /\ t.done /\ ~t.raised
                     /\ r.out = Combination(phi, a, ret, b, t.out)

====
